---- MODULE Spec2Model ----
(***************************************************************************)
(* candilib: the header template compiler (processHeaders), the row        *)
(* assembler (putDataInObject), the table pipeline (tableToArrayOfObj,     *)
(* rowsToArrayOfObj, rowToObj) of candiutil.js, the CSV row expander       *)
(* (CSVEntry.getOutputRows) and the CSV document (class CSV: constructor,  *)
(* addLine, addObject, writeFile) of candicsv.js.                          *)
(*                                                                         *)
(* A JavaScript string is a sequence of one-character strings.  A regular  *)
(* expression is kept as its source text (what new RegExp receives); the   *)
(* model interprets the dialect made of literal characters, the wildcard   *)
(* "." and non-nested capture groups "(" ... ")".                          *)
(***************************************************************************)
EXTENDS Integers, Sequences, FiniteSets, TLC

VARIABLES
    pc,          \* position of the running call
    rawHeaders,  \* the header templates given to the call (strings or null)
    headers,     \* the compiled header objects (headersOut of processHeaders)
    selected,    \* number of rows of the table the row selector selects
    table,       \* the selected rows rowsToArrayOfObj has taken, in source order
    children,    \* rowToArray: the cells of the row element, as their markup
    unknownDataProcessor,  \* rowToArray: the post-processor, "none" for null
    now,         \* fetchAsText: the clock (Date.now())
    remote,      \* fetchAsText: the text the URL serves
    cacheFile,   \* fetchAsText: the cache file of the URL (exists, mtime, text)
    fetched,     \* fetchAsText: the last call and what it returned
    remaining,   \* rows of the table not yet visited by rowsToArrayOfObj
    out,         \* the list of records built so far by rowsToArrayOfObj
    cols,        \* the cells of the row being assembled (dataArr)
    x,           \* the column index of putDataInObject's outer loop (0-based)
    obj,         \* the record being assembled (destObj)
    returned,    \* TRUE once the list was handed back to the caller
    data,        \* CSVEntry.data: the cells of the entry
    output,      \* the rows returned by getOutputRows
    csv,         \* the CSV document: headers, entries, qualifier, delimeter
    call         \* the last call made on the document and its outcome

vars == <<pc, rawHeaders, headers, selected, table, children, unknownDataProcessor,
          now, remote, cacheFile, fetched, remaining, out, cols, x, obj, returned,
          data, output, csv, call>>

-----------------------------------------------------------------------------
(* Bounds of the model. *)

MaxSegs == 3     \* segments concatenated into one template (SpecCompile)
MaxRows == 3     \* rows of a table (Spec)
MaxList == 3     \* elements of a list-valued cell of a CSV entry (SpecCsv)
MaxTime == 9     \* days the clock runs (SpecFetch)
MaxCells == 2    \* cells of a row element (SpecCells)
MaxExtra == 1    \* cells of a row beyond its header list (SpecRagged)
MaxEntries == 2  \* rows added to a CSV document (SpecDoc)

-----------------------------------------------------------------------------
(* Strings. *)

Min(S) == CHOOSE m \in S : \A n \in S : m <= n

RECURSIVE Concat(_)
Concat(ss) == IF ss = <<>> THEN <<>> ELSE Head(ss) \o Concat(Tail(ss))

\* tok occurs in s at the 1-based position i
IsAt(s, tok, i) ==
    /\ i >= 1
    /\ i + Len(tok) - 1 <= Len(s)
    /\ \A k \in 1..Len(tok) : s[i + k - 1] = tok[k]

-----------------------------------------------------------------------------
(* The four template regexes, each of the shape (.+?)OPEN(.+?)CLOSE. *)

multiOpen      == <<"[", "[">>
multiClose     == <<"]", "]">>
splitOpen      == <<"{", "{">>
splitClose     == <<"}", "}">>
mapOpen        == <<"<", "<">>
mapClose       == <<">", ">">>
transformOpen  == <<"/", "/">>
transformClose == <<"\\", "\\">>

NoMatch == [found |-> FALSE, index |-> 0, last |-> 0, g1 |-> <<>>, g2 |-> <<>>]

\* String.prototype.match with the non-global regex /(.+?)OPEN(.+?)CLOSE/:
\* the leftmost start, then the shortest first group for which the rest
\* matches, then the shortest second group.
HeaderMatch(h, open, close) ==
    LET n == Len(h)
        Rest(s, a) == {b \in 1..(n - s - a) : IsAt(h, close, s + a + Len(open) + b)}
        First(s, a) == IsAt(h, open, s + a) /\ Rest(s, a) # {}
        Starts == {s \in 1..n : \E a \in 1..(n - s) : First(s, a)}
    IN  IF Starts = {} THEN NoMatch
        ELSE LET s == Min(Starts)
                 a == Min({c \in 1..(n - s) : First(s, c)})
                 b == Min(Rest(s, a))
             IN  [found |-> TRUE,
                  index |-> s,
                  last |-> s + a + Len(open) + b + Len(close) - 1,
                  g1 |-> SubSeq(h, s, s + a - 1),
                  g2 |-> SubSeq(h, s + a + Len(open), s + a + Len(open) + b - 1)]

multiDataRegex(h)     == HeaderMatch(h, multiOpen, multiClose)
splitDataRegex(h)     == HeaderMatch(h, splitOpen, splitClose)
mapDataRegex(h)       == HeaderMatch(h, mapOpen, mapClose)
transformDataRegex(h) == HeaderMatch(h, transformOpen, transformClose)

\* String.prototype.split with a string separator of at least one character
RECURSIVE SplitStr(_, _)
SplitStr(s, sep) ==
    LET hits == {i \in 1..Len(s) : IsAt(s, sep, i)}
    IN  IF hits = {} THEN <<s>>
        ELSE LET i == Min(hits)
             IN  <<SubSeq(s, 1, i - 1)>> \o SplitStr(SubSeq(s, i + Len(sep), Len(s)), sep)

-----------------------------------------------------------------------------
(* Header templates and header objects. *)

Null == [isNull |-> TRUE, str |-> <<>>]
Str(s) == [isNull |-> FALSE, str |-> s]

\* A header object.  A field the code leaves unset is the empty sequence:
\* every pattern and every name list the code sets is non-empty.
HeaderObj(type, header, hdrs, transform, dataRegex, delim, map) ==
    [isNull |-> FALSE, type |-> type, header |-> header, headers |-> hdrs,
     transform |-> transform, dataRegex |-> dataRegex, delim |-> delim,
     map |-> map]

NullObj ==
    [isNull |-> TRUE, type |-> "null", header |-> <<>>, headers |-> <<>>,
     transform |-> <<>>, dataRegex |-> <<>>, delim |-> <<>>, map |-> <<>>]

\* ProcessHeader with the Multi syntax tested before the Transform syntax
ProcessHeaderMultiFirst(header) ==
    LET multiDataMatches     == multiDataRegex(header)
        splitDataMatches     == splitDataRegex(header)
        mapDataMatches       == mapDataRegex(header)
        transformDataMatches == transformDataRegex(header)
        map == IF mapDataMatches.found THEN mapDataMatches.g2 ELSE <<>>
    IN  IF multiDataMatches.found
        THEN HeaderObj("multi", <<>>, SplitStr(multiDataMatches.g1, <<",", ",">>),
                       <<>>, multiDataMatches.g2, <<>>, map)
        ELSE IF transformDataMatches.found
        THEN HeaderObj("transform", transformDataMatches.g1, <<>>,
                       transformDataMatches.g2, <<>>, <<>>, map)
        ELSE IF splitDataMatches.found
        THEN HeaderObj("split", splitDataMatches.g1, <<>>,
                       <<>>, <<>>, splitDataMatches.g2, map)
        ELSE HeaderObj("norm", header, <<>>, <<>>, <<>>, <<>>, map)

\* the body of processHeaders' loop for one non-null template
ProcessHeader(header) ==
    LET multiDataMatches     == multiDataRegex(header)
        splitDataMatches     == splitDataRegex(header)
        mapDataMatches       == mapDataRegex(header)
        transformDataMatches == transformDataRegex(header)
        map == IF mapDataMatches.found THEN mapDataMatches.g2 ELSE <<>>
    IN  IF transformDataMatches.found
        THEN HeaderObj("transform", transformDataMatches.g1, <<>>,
                       transformDataMatches.g2, <<>>, <<>>, map)
        ELSE IF multiDataMatches.found
        THEN LET headerString == multiDataMatches.g1
                 again == multiDataRegex(headerString)
                 \* headerString.replace(multiDataRegex, "")
                 replaced == IF again.found
                             THEN SubSeq(headerString, 1, again.index - 1)
                                  \o SubSeq(headerString, again.last + 1,
                                            Len(headerString))
                             ELSE headerString
             IN  HeaderObj("multi", <<>>, SplitStr(replaced, <<",", ",">>),
                           <<>>, multiDataMatches.g2, <<>>, map)
        ELSE IF splitDataMatches.found
        THEN HeaderObj("split", splitDataMatches.g1, <<>>,
                       <<>>, <<>>, splitDataMatches.g2, map)
        ELSE HeaderObj("norm", header, <<>>, <<>>, <<>>, <<>>, map)

\* a template string standing in the header object list: it has no
\* property type, and the empty string is falsy like null
Uncompiled(h) ==
    IF h.isNull THEN NullObj
    ELSE [NullObj EXCEPT !.isNull = (h.str = <<>>), !.type = "undefined",
                         !.header = h.str]

RECURSIVE processHeaders(_)
processHeaders(hs) ==
    IF hs = <<>> THEN <<>>
    ELSE <<IF Head(hs).isNull THEN NullObj ELSE ProcessHeader(Head(hs).str)>>
         \o processHeaders(Tail(hs))

-----------------------------------------------------------------------------
(* Regular expressions on cells: the dialect of literal characters, "."    *)
(* and non-nested capture groups.  A pattern is its source text.           *)

IsParen(c) == c \in {"(", ")"}

\* the pattern without its parentheses: one atom per character matched
Atoms(pat) == SelectSeq(pat, LAMBDA c : ~IsParen(c))

NumGroups(pat) == Len(SelectSeq(pat, LAMBDA c : c = "("))

\* the pattern matches s starting exactly at the 1-based position i
MatchesAt(pat, s, i) ==
    LET at == Atoms(pat)
    IN  /\ i + Len(at) - 1 <= Len(s)
        /\ \A k \in 1..Len(at) : at[k] = "." \/ at[k] = s[i + k - 1]

\* index in pat of the k-th "("
OpenAt(pat, k) ==
    CHOOSE u \in 1..Len(pat) :
        /\ pat[u] = "("
        /\ Len(SelectSeq(SubSeq(pat, 1, u), LAMBDA c : c = "(")) = k

\* the text captured by group k of a match of pat starting at i
GroupText(pat, s, i, k) ==
    LET u == OpenAt(pat, k)
        v == Min({w \in u..Len(pat) : pat[w] = ")"})
        skipped == Len(Atoms(SubSeq(pat, 1, u)))
        inside  == Len(Atoms(SubSeq(pat, u, v)))
    IN  SubSeq(s, i + skipped, i + skipped + inside - 1)

\* String.prototype.match with a non-global RegExp: null, or the leftmost
\* match with its capture groups
RegExpMatch(s, pat) ==
    LET hits == {i \in 1..(Len(s) + 1) : MatchesAt(pat, s, i)}
    IN  IF hits = {} THEN [found |-> FALSE, text |-> <<>>, groups |-> <<>>]
        ELSE [found |-> TRUE,
              text |-> SubSeq(s, Min(hits), Min(hits) + Len(Atoms(pat)) - 1),
              groups |-> [k \in 1..NumGroups(pat) |->
                             GroupText(pat, s, Min(hits), k)]]

\* String.prototype.split with a RegExp separator (RegExp.prototype
\* [Symbol.split]): p is the end of the previous separator, q the position
\* tried, both 0-based; the captures of the separator are spliced in.
RECURSIVE SplitLoop(_, _, _, _)
SplitLoop(s, pat, p, q) ==
    IF q >= Len(s) THEN <<SubSeq(s, p + 1, Len(s))>>
    ELSE IF ~MatchesAt(pat, s, q + 1) THEN SplitLoop(s, pat, p, q + 1)
    ELSE LET e == q + Len(Atoms(pat))
         IN  IF e = p THEN SplitLoop(s, pat, p, q + 1)
             ELSE <<SubSeq(s, p + 1, q)>>
                  \o [k \in 1..NumGroups(pat) |-> GroupText(pat, s, q + 1, k)]
                  \o SplitLoop(s, pat, e, e)

JsSplit(s, pat) ==
    IF Len(s) = 0
    THEN IF MatchesAt(pat, s, 1) THEN <<>> ELSE <<s>>
    ELSE SplitLoop(s, pat, 0, 0)

-----------------------------------------------------------------------------
(* Values of a record: undefined, a string, an array of strings, or an     *)
(* object (a mapping).  An array or an object carries its own properties   *)
(* in "map", as pairs <<key, value>>.                                      *)

VUndef   == [kind |-> "undefined", str |-> <<>>, list |-> <<>>, map |-> {}]
VStr(s)  == [kind |-> "string", str |-> s, list |-> <<>>, map |-> {}]
VList(l) == [kind |-> "array", str |-> <<>>, list |-> l, map |-> {}]
VMap(m)  == [kind |-> "object", str |-> <<>>, list |-> <<>>, map |-> m]

Truthy(v) ==
    CASE v.kind = "undefined" -> FALSE
      [] v.kind = "string"    -> v.str # <<>>
      [] OTHER                -> TRUE

\* a record, and the properties of a value, are sets of pairs <<key, value>>
Has(o, k) == \E p \in o : p[1] = k
Get(o, k) == IF Has(o, k) THEN (CHOOSE p \in o : p[1] = k)[2] ELSE VUndef
Put(o, k, v) == {p \in o : p[1] # k} \cup {<<k, v>>}
Keys(o) == {p[1] : p \in o}

\* matches[k] of a successful match: the whole match for k = 0, undefined
\* beyond the last group
Group(m, k) ==
    IF k = 0 THEN VStr(m.text)
    ELSE IF k <= Len(m.groups) THEN VStr(m.groups[k])
    ELSE VUndef

\* ToPropertyKey of a string or of undefined
PropertyKey(v) ==
    IF v.kind = "undefined"
    THEN <<"u", "n", "d", "e", "f", "i", "n", "e", "d">>
    ELSE v.str

Ok(o)    == [status |-> "ok", obj |-> o]
Exit(o)  == [status |-> "exit", obj |-> o]
Throw(o) == [status |-> "throw", obj |-> o]

-----------------------------------------------------------------------------
(* putDataInObject, one case of the switch per operator. *)

\* CaseTransform skipping a cell that does not match instead of exiting
CaseTransformSkip(o, headerObj, cell) ==
    LET m == RegExpMatch(cell, headerObj.transform)
    IN  IF ~m.found
        THEN Ok(o)
        ELSE Ok(Put(o, headerObj.header, Group(m, 1)))

CaseTransform(o, headerObj, cell) ==
    LET m == RegExpMatch(cell, headerObj.transform)
    IN  IF ~m.found
        THEN Exit(o)                               \* process.exit(0)
        ELSE Ok(Put(o, headerObj.header, Group(m, 1)))

\* MultiLoop reading matches[x] where the code reads matches[x + 1]
RECURSIVE MultiLoopShifted(_, _, _, _)
MultiLoopShifted(o, hdrs, matches, i) ==
    IF i > Len(hdrs) THEN Ok(o)
    ELSE IF ~matches.found
    THEN Throw(o)
    ELSE MultiLoopShifted(Put(o, hdrs[i], Group(matches, i - 1)), hdrs, matches, i + 1)

\* the inner loop of case "multi", from the 1-based name index i
RECURSIVE MultiLoop(_, _, _, _)
MultiLoop(o, hdrs, matches, i) ==
    IF i > Len(hdrs) THEN Ok(o)
    ELSE IF ~matches.found
    THEN Throw(o)                                  \* matches is null
    ELSE MultiLoop(Put(o, hdrs[i], Group(matches, i)), hdrs, matches, i + 1)

CaseMulti(o, headerObj, cell) ==
    MultiLoop(o, headerObj.headers, RegExpMatch(cell, headerObj.dataRegex), 1)

\* the loop over the fragments of case "split" with a map, from fragment i
RECURSIVE MapLoop(_, _, _, _, _)
MapLoop(o, header2, parts, map, i) ==
    IF i > Len(parts) THEN Ok(o)
    ELSE LET matches == RegExpMatch(parts[i], map)
             cur == Get(o, header2)
         IN  IF ~matches.found
             THEN Ok(Put(o, header2, VList(parts)))
             ELSE IF cur.kind = "string"
             THEN Throw(o)       \* property assignment on a primitive, strict mode
             ELSE MapLoop(Put(o, header2,
                              [cur EXCEPT !.map = Put(cur.map,
                                                      PropertyKey(Group(matches, 1)),
                                                      Group(matches, 2))]),
                          header2, parts, map, i + 1)

\* CaseSplit dropping the empty fragments of the split cell
CaseSplitDropEmpty(o, headerObj, cell) ==
    LET header2 == headerObj.header
        parts == SelectSeq(JsSplit(cell, headerObj.delim), LAMBDA f : f # <<>>)
    IN  IF headerObj.map # <<>>
        THEN MapLoop(IF ~Truthy(Get(o, header2))
                     THEN Put(o, header2, VMap({}))
                     ELSE o,
                     header2, parts, headerObj.map, 1)
        ELSE Ok(Put(o, header2, VList(parts)))

CaseSplit(o, headerObj, cell) ==
    LET header2 == headerObj.header
        parts == JsSplit(cell, headerObj.delim)
    IN  IF headerObj.map # <<>>
        THEN MapLoop(IF ~Truthy(Get(o, header2))
                     THEN Put(o, header2, VMap({}))
                     ELSE o,
                     header2, parts, headerObj.map, 1)
        ELSE Ok(Put(o, header2, VList(parts)))

\* CaseNorm applying an attached map pattern to the cell
CaseNormMapped(o, headerObj, cell) ==
    IF headerObj.map # <<>> /\ RegExpMatch(cell, headerObj.map).found
    THEN LET m == RegExpMatch(cell, headerObj.map)
         IN  Ok(Put(o, headerObj.header,
                    VMap({<<PropertyKey(Group(m, 1)), Group(m, 2)>>})))
    ELSE Ok(Put(o, headerObj.header, VStr(cell)))

CaseNorm(o, headerObj, cell) == Ok(Put(o, headerObj.header, VStr(cell)))

\* PutColumn without the test of a null header object
PutColumnNoNullTest(o, headerObjArr, dataArr, i) ==
    IF i > Len(headerObjArr)
    THEN Ok(o)
    ELSE LET headerObj == headerObjArr[i]
             cell == dataArr[i]
         IN  CASE headerObj.type = "transform" -> CaseTransform(o, headerObj, cell)
               [] headerObj.type = "multi"     -> CaseMulti(o, headerObj, cell)
               [] headerObj.type = "split"     -> CaseSplit(o, headerObj, cell)
               [] headerObj.type = "norm"      -> CaseNorm(o, headerObj, cell)
               [] OTHER                        -> Throw(o)

\* one iteration of putDataInObject's outer loop: column i (1-based)
PutColumn(o, headerObjArr, dataArr, i) ==
    IF i > Len(headerObjArr) \/ headerObjArr[i].isNull
    THEN Ok(o)                                     \* !headerObj: continue
    ELSE LET headerObj == headerObjArr[i]
             cell == dataArr[i]
         IN  CASE headerObj.type = "transform" -> CaseTransform(o, headerObj, cell)
               [] headerObj.type = "multi"     -> CaseMulti(o, headerObj, cell)
               [] headerObj.type = "split"     -> CaseSplit(o, headerObj, cell)
               [] headerObj.type = "norm"      -> CaseNorm(o, headerObj, cell)
               [] OTHER                        -> Throw(o)

\* putDataInObject from column i on
RECURSIVE PutFrom(_, _, _, _)
PutFrom(o, headerObjArr, dataArr, i) ==
    IF i > Len(dataArr) THEN Ok(o)
    ELSE LET r == PutColumn(o, headerObjArr, dataArr, i)
         IN  IF r.status = "ok" THEN PutFrom(r.obj, headerObjArr, dataArr, i + 1)
             ELSE r

putDataInObject(dataArr, headerObjArr, destObj) ==
    PutFrom(destObj, headerObjArr, dataArr, 1)

-----------------------------------------------------------------------------
(* CSVEntry.getOutputRows.  A scalar cell is a string, a number, null or   *)
(* undefined; a list cell is an array of scalars (kind "array", "items").  *)

CStr(s)   == [kind |-> "string", str |-> s, num |-> 0, items |-> <<>>]
CNum(n)   == [kind |-> "number", str |-> <<>>, num |-> n, items |-> <<>>]
CUndef    == [kind |-> "undefined", str |-> <<>>, num |-> 0, items |-> <<>>]
CArray(l) == [kind |-> "array", str |-> <<>>, num |-> 0, items |-> l]

IsArray(c) == c.kind = "array"

CTruthy(c) ==
    CASE c.kind = "string" -> c.str # <<>>
      [] c.kind = "number" -> c.num # 0
      [] c.kind = "array"  -> TRUE
      [] c.kind = "object" -> TRUE
      [] OTHER             -> FALSE

\* Longest without the comparison with the longest so far
RECURSIVE LongestLast(_, _, _)
LongestLast(cells, i, longest) ==
    IF i > Len(cells) THEN longest
    ELSE LongestLast(cells, i + 1,
                     IF IsArray(cells[i]) /\ Len(cells[i].items) > 0
                     THEN Len(cells[i].items)
                     ELSE longest)

\* the first loop: the longest array of the entry, at least 1
RECURSIVE Longest(_, _, _)
Longest(cells, i, longest) ==
    IF i > Len(cells) THEN longest
    ELSE Longest(cells, i + 1,
                 IF IsArray(cells[i]) /\ Len(cells[i].items) > longest
                 THEN Len(cells[i].items)
                 ELSE longest)

\* the second loop: longest rows of one "" per header
BlankRows(hdrs, longest) ==
    [r \in 1..longest |-> [c \in 1..Len(hdrs) |-> CStr(<<>>)]]

\* FindIndex taking the last falsy slot of the column
FindIndexLast(rows, col, index) ==
    LET free == {r \in index..Len(rows) : ~CTruthy(rows[r][col])}
    IN  IF free = {} THEN 0
        ELSE CHOOSE r \in free : \A q \in free : r >= q

\* while( output[index][col] ) index++, rows 1-based; 0 when the search
\* runs past the last row (output[index] is undefined: TypeError)
RECURSIVE FindIndex(_, _, _)
FindIndex(rows, col, index) ==
    IF index > Len(rows) THEN 0
    ELSE IF CTruthy(rows[index][col]) THEN FindIndex(rows, col, index + 1)
    ELSE index

\* PlaceItems giving every element the row of its position in the list
RECURSIVE PlaceItemsEach(_, _, _, _)
PlaceItemsEach(rows, col, items, i) ==
    IF i > Len(items) THEN [status |-> "ok", rows |-> rows]
    ELSE PlaceItemsEach([rows EXCEPT ![i][col] = items[i]], col, items, i + 1)

\* the loop over the elements of one array cell, from element i
RECURSIVE PlaceItems(_, _, _, _)
PlaceItems(rows, col, items, i) ==
    IF i > Len(items) THEN [status |-> "ok", rows |-> rows]
    ELSE LET index == FindIndex(rows, col, 1)
         IN  IF index = 0 THEN [status |-> "throw", rows |-> rows]
             ELSE PlaceItems([rows EXCEPT ![index][col] = items[i]],
                             col, items, i + 1)

\* PlaceColumns storing a scalar cell only when it is truthy
RECURSIVE PlaceColumnsTruthy(_, _, _)
PlaceColumnsTruthy(rows, cells, col) ==
    IF col > Len(cells) THEN [status |-> "ok", rows |-> rows]
    ELSE IF ~IsArray(cells[col])
    THEN PlaceColumnsTruthy(IF CTruthy(cells[col])
                            THEN [rows EXCEPT ![1][col] = cells[col]]
                            ELSE rows,
                            cells, col + 1)
    ELSE LET r == PlaceItems(rows, col, cells[col].items, 1)
         IN  IF r.status = "ok" THEN PlaceColumnsTruthy(r.rows, cells, col + 1)
             ELSE r

\* the third loop: the columns of the entry, from column col
RECURSIVE PlaceColumns(_, _, _)
PlaceColumns(rows, cells, col) ==
    IF col > Len(cells) THEN [status |-> "ok", rows |-> rows]
    ELSE IF ~IsArray(cells[col])
    THEN PlaceColumns([rows EXCEPT ![1][col] = cells[col]], cells, col + 1)
    ELSE LET r == PlaceItems(rows, col, cells[col].items, 1)
         IN  IF r.status = "ok" THEN PlaceColumns(r.rows, cells, col + 1)
             ELSE r

getOutputRows(hdrs, cells) ==
    PlaceColumns(BlankRows(hdrs, Longest(cells, 1, 1)), cells, 1)

-----------------------------------------------------------------------------
(* The CSV document: class CSV and the rest of class CSVEntry.  A keyed    *)
(* object is the sequence of its <<key, value>> pairs in key enumeration   *)
(* order (what Object.keys walks).  A thrown value is kept as the constant *)
(* part of its message ("error") and the values inserted in it ("detail"). *)

CNull   == [kind |-> "null", str |-> <<>>, num |-> 0, items |-> <<>>]
CObject == [kind |-> "object", str |-> <<>>, num |-> 0, items |-> <<>>]

\* typeof value === "object" && !Array.isArray(value)
IsKeyed(c) == c.kind = "null" \/ c.kind = "object"

KeyedObject(pairs) == [kind |-> "object", pairs |-> pairs, items |-> <<>>]
ArrayOf(items)     == [kind |-> "array", pairs |-> <<>>, items |-> items]
NullValue          == [kind |-> "null", pairs |-> <<>>, items |-> <<>>]

\* Object.keys
ObjectKeys(o) == [i \in 1..Len(o.pairs) |-> o.pairs[i][1]]

Returned(v)           == [status |-> "ok", error |-> "", detail |-> <<>>, value |-> v]
Thrown(error, detail) == [status |-> "throw", error |-> error, detail |-> detail, value |-> <<>>]

\* the document before its construction
NoCsv ==
    [headers |-> <<>>, entries |-> <<>>, qualifier |-> <<>>, delimeter |-> <<>>,
     currentLine |-> <<>>]

\* the field initialisers of class CSV
NewCsv ==
    [headers |-> <<>>, entries |-> <<>>, qualifier |-> <<"\"">>, delimeter |-> <<",">>,
     currentLine |-> <<>>]

\* option.toLowerCase(), over the option names given to the constructor
toLowerCase(option) ==
    CASE option = "Qualifier" -> "qualifier"
      [] option = "DELIMITER" -> "delimiter"
      [] OTHER                -> option

\* the loop over the options, from option i
RECURSIVE SetOptions(_, _, _)
SetOptions(this, options, i) ==
    IF i > Len(options) THEN Returned(this)
    ELSE LET option == options[i][1]
             value == options[i][2]
         IN  CASE toLowerCase(option) = "qualifier" ->
                    SetOptions([this EXCEPT !.qualifier = value], options, i + 1)
               [] toLowerCase(option) = "delimiter" ->
                    SetOptions([this EXCEPT !.delimeter = value], options, i + 1)
               [] OTHER -> Thrown("Unrecognised option: ", option)

\* new CSV(headersIn, options); options is <<>> for null
CsvNew(headersIn, options) ==
    SetOptions([NewCsv EXCEPT !.headers = IF headersIn.kind = "object"
                                          THEN ObjectKeys(headersIn)
                                          ELSE headersIn.items],
               options, 1)

\* CsvEntryNew refusing only an array longer than the header list
CsvEntryNewAtMost(headersIn, dataIn) ==
    LET this == [kind |-> "CSVEntry", headers |-> headersIn, data |-> <<>>]
    IN  IF dataIn.kind = "null" THEN Returned(this)
        ELSE IF dataIn.kind # "array" THEN Thrown("Expected array", <<>>)
        ELSE IF Len(dataIn.items) > Len(headersIn)
        THEN Thrown("Input length ; expected ", <<Len(dataIn.items), Len(headersIn)>>)
        ELSE Returned([this EXCEPT !.data = dataIn.items])

\* new CSVEntry(headersIn, dataIn); dataIn is a keyed object, an array or null
CsvEntryNew(headersIn, dataIn) ==
    LET this == [kind |-> "CSVEntry", headers |-> headersIn, data |-> <<>>]
    IN  IF dataIn.kind = "null" THEN Returned(this)
        ELSE IF dataIn.kind # "array" THEN Thrown("Expected array", <<>>)
        ELSE IF Len(dataIn.items) # Len(headersIn)
        THEN Thrown("Input length ; expected ", <<Len(dataIn.items), Len(headersIn)>>)
        ELSE Returned([this EXCEPT !.data = dataIn.items])

\* Array.prototype.indexOf, 0-based, -1 when absent
ArrayIndexOf(arr, v) ==
    IF \E i \in 1..Len(arr) : arr[i] = v
    THEN Min({i \in 1..Len(arr) : arr[i] = v}) - 1
    ELSE -1

\* indexOf giving the next free position of the entry
indexOfNext(this, header) == Returned(Len(this.data))

\* CSVEntry.indexOf: the test !index && index !== 0 is false for every
\* number indexOf returns, -1 included
indexOf(this, header) ==
    LET index == ArrayIndexOf(this.headers, header)
    IN  IF index = 0 /\ index # 0 THEN Thrown("Could not find header ", header)
        ELSE Returned(index)

\* arr[index], undefined past the end and for a hole
ArrayGet(arr, index) ==
    IF index >= 0 /\ index < Len(arr) THEN arr[index + 1] ELSE CUndef

\* arr[index] = value; the array grows by holes, read as undefined; a
\* negative index sets a property and leaves the elements alone
ArraySet(arr, index, value) ==
    IF index < 0 THEN arr
    ELSE [i \in 1..(IF index + 1 > Len(arr) THEN index + 1 ELSE Len(arr)) |->
            IF i = index + 1 THEN value
            ELSE IF i <= Len(arr) THEN arr[i] ELSE CUndef]

\* CSVEntry.add
add(this, header, value) ==
    IF IsKeyed(value) THEN Thrown("Cannot add object to cell", <<>>)
    ELSE IF indexOf(this, header).status = "throw" THEN indexOf(this, header)
    ELSE LET index == indexOf(this, header).value
             old == ArrayGet(this.data, index)
         IN  IF CTruthy(old)
             THEN IF IsArray(old)
                  THEN Returned([this EXCEPT !.data =
                           ArraySet(this.data, index, CArray(Append(old.items, value)))])
                  ELSE Returned([this EXCEPT !.data =
                           ArraySet(this.data, index, CArray(<<old, value>>))])
             ELSE Returned([this EXCEPT !.data = ArraySet(this.data, index, value)])

\* a raise that leaves the document as this
Leaving(r, this) == [r EXCEPT !.value = this]

\* CSV.addLine: the value is the document after the call, raised or
\* returned; the entry is pushed after the CSVEntry constructor returned
addLine(this, line) ==
    LET row == CsvEntryNew(this.headers, line)
    IN  IF row.status = "throw" THEN Leaving(row, this)
        ELSE Returned([this EXCEPT !.entries = Append(this.entries, line),
                                   !.currentLine = line])

\* AddKeys without the includes test, leaving the lookup to CSVEntry.indexOf
RECURSIVE AddKeysUntested(_, _, _, _)
AddKeysUntested(this, row, o, i) ==
    IF i > Len(o.pairs) THEN Returned(row)
    ELSE LET r == add(row, ObjectKeys(o)[i], o.pairs[i][2])
         IN  IF r.status = "throw" THEN r
             ELSE AddKeysUntested(this, r.value, o, i + 1)

\* the loop of addObject over the keys of the object, from key i
RECURSIVE AddKeys(_, _, _, _)
AddKeys(this, row, o, i) ==
    IF i > Len(o.pairs) THEN Returned(row)
    ELSE LET key == ObjectKeys(o)[i]
             value == o.pairs[i][2]
         IN  IF ArrayIndexOf(this.headers, key) = -1
             THEN Thrown("Could not find header ", key)
             ELSE LET r == add(row, key, value)
                  IN  IF r.status = "throw" THEN r
                      ELSE AddKeys(this, r.value, o, i + 1)

\* addObject pushing the row before its cells are filled
addObjectEager(this, o) ==
    LET row == CsvEntryNew(this.headers, NullValue).value
        pushed == [this EXCEPT !.entries = Append(this.entries, row)]
    IN  IF o.kind = "string"
        THEN Leaving(Thrown("Expected object", <<>>), this)
        ELSE IF o.kind = "null"
        THEN Leaving(Thrown("TypeError", <<>>), this)
        ELSE IF Len(ObjectKeys(o)) # Len(this.headers)
        THEN Leaving(Thrown("ReferenceError", <<>>), pushed)
        ELSE LET r == AddKeys(this, row, o, 1)
             IN  IF r.status = "throw" THEN Leaving(r, pushed)
                 ELSE Returned([this EXCEPT !.entries = Append(this.entries, r.value)])

\* CSV.addObject on a keyed object, null or a string: the value is the
\* document after the call, raised or returned; the row is a local until
\* the push of the last statement.  Object.keys of null is a TypeError; the
\* message of the key count test reads the identifier headers, which no
\* scope of the module declares.
addObject(this, o) ==
    LET row == CsvEntryNew(this.headers, NullValue).value
    IN  IF o.kind = "string"
        THEN Leaving(Thrown("Expected object", <<>>), this)
        ELSE IF o.kind = "null"
        THEN Leaving(Thrown("TypeError", <<>>), this)
        ELSE IF Len(ObjectKeys(o)) # Len(this.headers)
        THEN Leaving(Thrown("ReferenceError", <<>>), this)
        ELSE LET r == AddKeys(this, row, o, 1)
             IN  IF r.status = "throw" THEN Leaving(r, this)
                 ELSE Returned([this EXCEPT !.entries = Append(this.entries, r.value)])

\* the first loop of writeFile, from entry i: an array pushed by addLine
\* has no getOutputRows (TypeError)
RECURSIVE CollectLines(_, _, _)
CollectLines(lines, entries, i) ==
    IF i > Len(entries) THEN Returned(lines)
    ELSE IF entries[i].kind # "CSVEntry"
    THEN Thrown("TypeError", <<>>)
    ELSE LET line == getOutputRows(entries[i].headers, entries[i].data)
         IN  IF line.status = "throw" THEN Thrown("TypeError", <<>>)
             ELSE CollectLines(lines \o line.rows, entries, i + 1)

Digits == <<"0", "1", "2", "3", "4", "5", "6", "7", "8", "9">>

\* Number.prototype.toString of an integer
RECURSIVE NumberToString(_)
NumberToString(n) ==
    IF n < 0 THEN <<"-">> \o NumberToString(-n)
    ELSE IF n < 10 THEN <<Digits[n + 1]>>
    ELSE NumberToString(n \div 10) \o <<Digits[(n % 10) + 1]>>

\* text += data for a cell that passed the emptiness test
RECURSIVE ToText(_)
ToText(c) ==
    CASE c.kind = "string" -> c.str
      [] c.kind = "number" -> NumberToString(c.num)
      [] c.kind = "array"  ->
            IF c.items = <<>> THEN <<>>
            ELSE IF Len(c.items) = 1
            THEN (IF c.items[1].kind \in {"null", "undefined"} THEN <<>>
                  ELSE ToText(c.items[1]))
            ELSE ToText(CArray(<<c.items[1]>>)) \o <<",">> \o ToText(CArray(Tail(c.items)))
      [] c.kind = "undefined" -> <<"u", "n", "d", "e", "f", "i", "n", "e", "d">>
      [] c.kind = "null"   -> <<"n", "u", "l", "l">>
      [] OTHER             -> <<"[", "o", "b", "j", "e", "c", "t", " ", "O", "b", "j", "e", "c", "t", "]">>

\* if( this.qualifier ): the qualifier is a string
QualifierText(this) == IF this.qualifier # <<>> THEN this.qualifier ELSE <<>>

\* WriteCols with the emptiness test !data alone
RECURSIVE WriteColsFalsy(_, _, _, _)
WriteColsFalsy(this, text, line, col) ==
    IF col > Len(line) THEN text
    ELSE LET d == line[col]
             field == IF ~CTruthy(d) THEN <<>> ELSE ToText(d)
         IN  WriteColsFalsy(this,
                       text \o QualifierText(this) \o field \o QualifierText(this)
                            \o (IF col < Len(line) THEN this.delimeter ELSE <<>>),
                       line, col + 1)

\* the inner loop of writeFile over the columns of one line, from column col
RECURSIVE WriteCols(_, _, _, _)
WriteCols(this, text, line, col) ==
    IF col > Len(line) THEN text
    ELSE LET d == line[col]
             field == IF (d.kind = "null" \/ ~CTruthy(d)) /\ d # CNum(0)
                      THEN <<>>
                      ELSE ToText(d)
         IN  WriteCols(this,
                       text \o QualifierText(this) \o field \o QualifierText(this)
                            \o (IF col < Len(line) THEN this.delimeter ELSE <<>>),
                       line, col + 1)

\* WriteRows ending every line, the last one too, with a newline
RECURSIVE WriteRowsNewline(_, _, _, _)
WriteRowsNewline(this, text, lines, row) ==
    IF row > Len(lines) THEN text
    ELSE WriteRowsNewline(this,
                          WriteCols(this, text, lines[row], 1) \o <<"\n">>,
                          lines, row + 1)

\* the outer loop of writeFile over the lines, from line row
RECURSIVE WriteRows(_, _, _, _)
WriteRows(this, text, lines, row) ==
    IF row > Len(lines) THEN text
    ELSE WriteRows(this,
                   WriteCols(this, text, lines[row], 1)
                       \o (IF row < Len(lines) THEN <<"\n">> ELSE <<>>),
                   lines, row + 1)

\* writeFile emptying the list of entries once they are written
writeFileDrain(this) ==
    LET header == [c \in 1..Len(this.headers) |-> CStr(this.headers[c])]
        lines == CollectLines(<<header>>, this.entries, 1)
    IN  IF lines.status = "throw" THEN lines
        ELSE Returned([text |-> WriteRows(this, <<>>, lines.value, 1),
                       this |-> [this EXCEPT !.entries = <<>>]])

\* CSV.writeFile: the value is the text handed to fs.writeFileSync and the
\* document as the call leaves it (no field is assigned, and lines and the
\* rows of getOutputRows are arrays made by the call)
writeFile(this) ==
    LET header == [c \in 1..Len(this.headers) |-> CStr(this.headers[c])]
        lines == CollectLines(<<header>>, this.entries, 1)
    IN  IF lines.status = "throw" THEN lines
        ELSE Returned([text |-> WriteRows(this, <<>>, lines.value, 1),
                       this |-> this])

-----------------------------------------------------------------------------
(* Inputs. *)

PatTransform == <<"(", ".", ")", "x">>                  \* (.)x
PatPair      == <<"(", ".", ")", "=", "(", ".", ")">>   \* (.)=(.)
PatComma     == <<",">>                                 \* ,

Unit(open, pat, close) == open \o pat \o close

TransformUnit == Unit(transformOpen, PatTransform, transformClose)
MultiUnit     == Unit(multiOpen, PatPair, multiClose)
SplitUnit     == Unit(splitOpen, PatComma, splitClose)
MapUnit       == Unit(mapOpen, PatPair, mapClose)

\* the pieces templates are made of: names, well-formed bracket units and
\* stray bracket tokens
Segments ==
    { <<"a">>, <<"a", ",", ",", "b">>,
      TransformUnit, MultiUnit, SplitUnit, MapUnit,
      multiOpen, splitClose, transformOpen }

SeqsUpTo(S, n) == UNION {[1..k -> S] : k \in 1..n}

\* a pattern of the modelled dialect: no character class, no escape, the
\* parentheses balanced and not nested
InDialect(pat) ==
    LET ps == SelectSeq(pat, IsParen)
    IN  /\ \A i \in 1..Len(pat) : pat[i] \notin {"[", "\\"}
        /\ Len(ps) % 2 = 0
        /\ \A i \in 1..Len(ps) : ps[i] = IF i % 2 = 1 THEN "(" ELSE ")"

\* every pattern processHeaders compiles for the template is in the dialect
Compilable(t) ==
    LET h == ProcessHeader(t)
    IN  /\ InDialect(h.transform)
        /\ InDialect(h.dataRegex)
        /\ InDialect(h.delim)
        /\ InDialect(h.map)

CompileTemplates ==
    {t \in {Concat(ss) : ss \in SeqsUpTo(Segments, MaxSegs)} \cup {<<>>} :
        Compilable(t)}

\* templates of the first column of a row, by the fields a, b they write
ColumnA ==
    { <<"a">>,
      <<"a">> \o TransformUnit,
      <<"a", ",", ",", "b">> \o MultiUnit,
      <<"a", ",", ",", "a">> \o MultiUnit,
      <<"a">> \o SplitUnit,
      <<"a">> \o SplitUnit \o MapUnit,
      <<"a">> \o MapUnit,
      <<"a">> \o TransformUnit \o MapUnit,
      <<"a", ",", ",", "b">> \o MultiUnit \o MapUnit,
      <<"a">> \o TransformUnit \o MultiUnit }

\* templates of the second column, writing the field c
ColumnC ==
    { <<"c">>, <<"c">> \o SplitUnit \o MapUnit, <<"c">> \o TransformUnit }

\* the header lists of a row: one or two columns, null placeholders
\* included; two columns never write the same field, but for the last
\* list, whose two columns build one mapping
HeaderLists ==
    {<<h>> : h \in {Str(t) : t \in ColumnA} \cup {Null}}
    \cup {<<h1, h2>> : h1 \in {Str(t) : t \in ColumnA} \cup {Null},
                      h2 \in {Str(t) : t \in ColumnC} \cup {Null}}
    \cup {<<Str(<<"a">> \o SplitUnit \o MapUnit),
            Str(<<"a">> \o SplitUnit \o MapUnit)>>}

\* the header lists of a table of several rows
TableHeaderLists ==
    {<<Str(t)>> : t \in { <<"a">>,
                         <<"a">> \o TransformUnit,
                         <<"a", ",", ",", "b">> \o MultiUnit,
                         <<"a">> \o SplitUnit \o MapUnit }}
    \cup {<<Null>>}

\* the cells of a row: strings, as rowToArray's sanitise returns them
Cells ==
    { <<>>,
      <<"a", "x">>,
      <<"k", "=", "v">>,
      <<"k", "=", "v", ",", "w", "=", "x">>,
      <<"k", "=", "v", ",", "a", "b">>,
      <<"a", "b", ",", "k", "=", "v">>,
      <<"k", "=", "v", ",", "k", "=", "w">> }

Rows(n) == [1..n -> Cells]

\* the header lists of a row that has more or fewer cells than headers
RaggedHeaderLists ==
    TableHeaderLists
    \cup {<<h1, h2>> : h1 \in {Str(<<"a">>), Null},
                       h2 \in {Str(<<"c">>), Str(<<"c">> \o TransformUnit)}}

\* the header lists given to rowToObj and rowsToArrayOfObj
DirectHeaderLists ==
    TableHeaderLists \cup {<<Str(<<>>)>>}

\* the rows of up to n cells
RowsUpTo(n) == UNION {Rows(k) : k \in 0..n}

\* the header list of the CSV entry
csvHeaders == << <<"a">>, <<"b">> >>

Scalars == {CStr(<<"x">>), CStr(<<>>), CNum(0), CUndef}

Elements == {CStr(<<"1">>), CStr(<<"2">>), CStr(<<"3">>), CStr(<<>>), CNum(0)}

ListsUpTo(S, n) == {CArray(l) : l \in UNION {[1..k -> S] : k \in 0..n}}

\* the entries: a scalar or a short list under a, a scalar or a list of up
\* to MaxList elements under b
Entries ==
    {<<c1, c2>> :
        c1 \in Scalars \cup ListsUpTo({CStr(<<"1">>), CStr(<<>>)}, 2),
        c2 \in Scalars \cup ListsUpTo(Elements, MaxList)}

-----------------------------------------------------------------------------
(* The table pipeline: tableToArrayOfObj, rowsToArrayOfObj, rowToObj and   *)
(* the loop of putDataInObject, one step per column.                       *)

\* no cache file
NoFile == [exists |-> FALSE, mtime |-> 0, text |-> 0]

\* no call of fetchAsText yet
NoFetch == [called |-> FALSE, doCache |-> FALSE, at |-> 0, page |-> 0, text |-> 0,
            before |-> NoFile]

\* fetchAsText is not in use
fetchIdle == now = 0 /\ remote = 0 /\ cacheFile = NoFile /\ fetched = NoFetch

\* rowToArray and fetchAsText are not in use
rowIdle == children = <<>> /\ unknownDataProcessor = "none" /\ fetchIdle

NoCall ==
    [op |-> "", line |-> NullValue, object |-> NullValue, result |-> Returned(<<>>),
     before |-> NoCsv, prev |-> Returned(<<>>)]

csvIdle == data = <<>> /\ output = <<>> /\ csv = NoCsv /\ call = NoCall

InitWith(lists, sizes) ==
    /\ pc = "start"
    /\ rawHeaders \in lists
    /\ selected \in sizes
    /\ remaining = selected
    /\ table = <<>>
    /\ rowIdle
    /\ headers = <<>>
    /\ out = <<>>
    /\ cols = <<>>
    /\ x = 0
    /\ obj = {}
    /\ returned = FALSE
    /\ csvIdle

\* a table of up to MaxRows selected rows
Init == InitWith(TableHeaderLists, 0..MaxRows)

\* a table of one row, any header list
InitRow == InitWith(HeaderLists, {1})

\* one template, no row
InitCompile == InitWith({<<Str(t)>> : t \in CompileTemplates}, {0})

\* tableToArrayOfObj: const headers = processHeaders(rawHeaders)
CompileHeaders ==
    /\ pc = "start"
    /\ headers' = processHeaders(rawHeaders)
    /\ pc' = "rows"
    /\ UNCHANGED <<rawHeaders, selected, table, remaining, out, cols, x, obj, returned, data, output, csv, call, children, unknownDataProcessor, now, remote, cacheFile, fetched>>

\* rowsToArrayOfObj takes the next row; rowToObj starts a record for it
RowToObj ==
    /\ pc = "rows"
    /\ remaining > 0
    /\ \E row \in Rows(Len(headers)) :
        /\ cols' = row
        /\ table' = Append(table, row)
    /\ remaining' = remaining - 1
    /\ obj' = {}
    /\ x' = 0
    /\ pc' = "cols"
    /\ UNCHANGED <<rawHeaders, headers, selected, out, returned, data, output, csv, call, children, unknownDataProcessor, now, remote, cacheFile, fetched>>

\* the type of the header object of the column about to be assembled
ColumnType ==
    IF x + 1 > Len(headers) \/ headers[x + 1].isNull THEN "null"
    ELSE headers[x + 1].type

\* the loop of putDataInObject is at a column of the given type
AtColumn(type) ==
    /\ pc = "cols"
    /\ x < Len(cols)
    /\ ColumnType = type

\* Iterate taking the cell it has read out of the row
IterateTaking(r) ==
    /\ obj' = r.obj
    /\ x' = IF r.status = "ok" THEN x + 1 ELSE x
    /\ pc' = CASE r.status = "ok"   -> "cols"
               [] r.status = "exit" -> "exited"
               [] OTHER             -> "threw"
    /\ cols' = [cols EXCEPT ![x + 1] = <<>>]
    /\ UNCHANGED <<rawHeaders, headers, selected, table, remaining, out, returned, data, output, csv, call, children, unknownDataProcessor, now, remote, cacheFile, fetched>>

\* the outcome r of one iteration of the loop
Iterate(r) ==
    /\ obj' = r.obj
    /\ x' = IF r.status = "ok" THEN x + 1 ELSE x
    /\ pc' = CASE r.status = "ok"   -> "cols"
               [] r.status = "exit" -> "exited"
               [] OTHER             -> "threw"
    /\ UNCHANGED <<rawHeaders, headers, selected, table, remaining, out, cols, returned, data, output, csv, call, children, unknownDataProcessor, now, remote, cacheFile, fetched>>

\* SkipColumn raising on a cell beyond the header list
SkipColumnRaising ==
    /\ AtColumn("null")
    /\ Iterate(IF x + 1 > Len(headers) THEN Throw(obj)
               ELSE PutColumn(obj, headers, cols, x + 1))

SkipColumn ==
    /\ AtColumn("null")
    /\ Iterate(PutColumn(obj, headers, cols, x + 1))

TransformColumn ==
    /\ AtColumn("transform")
    /\ Iterate(PutColumn(obj, headers, cols, x + 1))

MultiColumn ==
    /\ AtColumn("multi")
    /\ Iterate(PutColumn(obj, headers, cols, x + 1))

SplitColumn ==
    /\ AtColumn("split")
    /\ Iterate(PutColumn(obj, headers, cols, x + 1))

NormColumn ==
    /\ AtColumn("norm")
    /\ Iterate(PutColumn(obj, headers, cols, x + 1))

\* EndRow putting the record at the head of the list
EndRowFirst ==
    /\ pc = "cols"
    /\ x = Len(cols)
    /\ out' = <<obj>> \o out
    /\ pc' = "rows"
    /\ UNCHANGED <<rawHeaders, headers, selected, table, remaining, cols, x, obj, returned, data, output, csv, call, children, unknownDataProcessor, now, remote, cacheFile, fetched>>

\* putDataInObject and rowToObj return; rowsToArrayOfObj pushes the record
EndRow ==
    /\ pc = "cols"
    /\ x = Len(cols)
    /\ out' = Append(out, obj)
    /\ pc' = "rows"
    /\ UNCHANGED <<rawHeaders, headers, selected, table, remaining, cols, x, obj, returned, data, output, csv, call, children, unknownDataProcessor, now, remote, cacheFile, fetched>>

\* rowsToArrayOfObj and tableToArrayOfObj return the list
Return ==
    /\ pc = "rows"
    /\ remaining = 0
    /\ returned' = TRUE
    /\ pc' = "returned"
    /\ UNCHANGED <<rawHeaders, headers, selected, table, remaining, out, cols, x, obj, data, output, csv, call, children, unknownDataProcessor, now, remote, cacheFile, fetched>>

Next ==
    \/ CompileHeaders
    \/ RowToObj
    \/ SkipColumn
    \/ TransformColumn
    \/ MultiColumn
    \/ SplitColumn
    \/ NormColumn
    \/ EndRow
    \/ Return

Spec == Init /\ [][Next]_vars

\* rowsToArrayOfObj(rows, headers) called with the template strings (a
\* call of rowToObj is the case of one row)
InitDirect ==
    /\ pc = "direct"
    /\ rawHeaders \in DirectHeaderLists
    /\ selected \in 0..MaxRows
    /\ remaining = selected
    /\ table = <<>>
    /\ rowIdle
    /\ headers = <<>>
    /\ out = <<>>
    /\ cols = <<>>
    /\ x = 0
    /\ obj = {}
    /\ returned = FALSE
    /\ csvIdle

\* the header list goes to putDataInObject as it was given
PassHeaders ==
    /\ pc = "direct"
    /\ headers' = [i \in 1..Len(rawHeaders) |-> Uncompiled(rawHeaders[i])]
    /\ pc' = "rows"
    /\ UNCHANGED <<rawHeaders, selected, table, remaining, out, cols, x, obj, returned, data, output, csv, call, children, unknownDataProcessor, now, remote, cacheFile, fetched>>

\* the default case of the switch: headerObj.type is none of the four
DefaultColumn ==
    /\ AtColumn("undefined")
    /\ Iterate(PutColumn(obj, headers, cols, x + 1))

NextDirect ==
    \/ PassHeaders
    \/ RowToObj
    \/ SkipColumn
    \/ DefaultColumn
    \/ EndRow
    \/ Return

SpecDirect == InitDirect /\ [][NextDirect]_vars

\* a table of one row and a header list of one or two templates
InitRagged == InitWith(RaggedHeaderLists, {1})

\* RowToObj on a row of any number of cells: rowToArray returns one cell
\* per child of the row, whatever the header list
RowToObjRagged ==
    /\ pc = "rows"
    /\ remaining > 0
    /\ \E row \in RowsUpTo(Len(headers) + MaxExtra) :
        /\ cols' = row
        /\ table' = Append(table, row)
    /\ remaining' = remaining - 1
    /\ obj' = {}
    /\ x' = 0
    /\ pc' = "cols"
    /\ UNCHANGED <<rawHeaders, headers, selected, out, returned, data, output, csv, call, children, unknownDataProcessor, now, remote, cacheFile, fetched>>

NextRagged ==
    \/ CompileHeaders
    \/ RowToObjRagged
    \/ SkipColumn
    \/ TransformColumn
    \/ MultiColumn
    \/ SplitColumn
    \/ NormColumn
    \/ EndRow
    \/ Return

SpecRagged == InitRagged /\ [][NextRagged]_vars

-----------------------------------------------------------------------------
(* The CSV entry: one call of getOutputRows on an entry over csvHeaders. *)

InitCsv ==
    /\ pc = "entry"
    /\ data \in Entries
    /\ output = <<>>
    /\ rawHeaders = <<>>
    /\ headers = <<>>
    /\ selected = 0
    /\ table = <<>>
    /\ rowIdle
    /\ remaining = 0
    /\ out = <<>>
    /\ cols = <<>>
    /\ x = 0
    /\ obj = {}
    /\ returned = FALSE
    /\ csv = NoCsv
    /\ call = NoCall

GetOutputRows ==
    /\ pc = "entry"
    /\ LET r == getOutputRows(csvHeaders, data)
       IN  /\ output' = r.rows
           /\ pc' = IF r.status = "ok" THEN "expanded" ELSE "threw"
    /\ UNCHANGED <<rawHeaders, headers, selected, table, remaining, out, cols, x, obj, returned, data, csv, call, children, unknownDataProcessor, now, remote, cacheFile, fetched>>

SpecCsv == InitCsv /\ [][GetOutputRows]_vars

SpecRow == InitRow /\ [][Next]_vars

SpecCompile == InitCompile /\ [][CompileHeaders]_vars

-----------------------------------------------------------------------------
(* rowToArray: one call on a row element.  The markup of a cell is a       *)
(* sequence of characters and tags (a tag is one element), the character   *)
(* U+25A3 being the one of the list disallowed.                            *)

disallowed == <<"U+25A3">>

IsTag(c) == c \in {"<b>", "</b>"}

NotTag(c) == ~IsTag(c)

\* $(col).text(): the characters of the markup outside its tags
Text(html) == SelectSeq(html, NotTag)

\* the characters the class \s matches
IsSpace(c) == c \in {" ", "\t", "\n"}

\* str.replaceAll(remove, "") for each character of disallowed
RECURSIVE RemoveDisallowed(_)
RemoveDisallowed(str) ==
    IF str = <<>> THEN <<>>
    ELSE IF \E i \in 1..Len(disallowed) : Head(str) = disallowed[i]
    THEN RemoveDisallowed(Tail(str))
    ELSE <<Head(str)>> \o RemoveDisallowed(Tail(str))

\* the length of the run of whitespace at the start of str
RECURSIVE SpaceRun(_)
SpaceRun(str) ==
    IF str = <<>> \/ ~IsSpace(Head(str)) THEN 0 ELSE 1 + SpaceRun(Tail(str))

\* the length of the run of whitespace at the end of str
RECURSIVE SpaceRunEnd(_)
SpaceRunEnd(str) ==
    IF str = <<>> \/ ~IsSpace(str[Len(str)]) THEN 0
    ELSE 1 + SpaceRunEnd(SubSeq(str, 1, Len(str) - 1))

\* replaceAll(/(^\s+|\s+$)/g, ""): a string of whitespace only is taken
\* whole by the first alternative
Trim(str) ==
    LET l == SpaceRun(str)
        rest == SubSeq(str, l + 1, Len(str))
    IN  SubSeq(rest, 1, Len(rest) - SpaceRunEnd(rest))

\* replaceAll(/(\s\s+)/g, " "): a run of two or more whitespace characters
\* becomes one space, a single whitespace character stays what it is
RECURSIVE Collapse(_)
Collapse(str) ==
    IF str = <<>> THEN <<>>
    ELSE IF SpaceRun(str) >= 2
    THEN <<" ">> \o Collapse(SubSeq(str, SpaceRun(str) + 1, Len(str)))
    ELSE <<Head(str)>> \o Collapse(Tail(str))

sanitise(str) == Collapse(Trim(RemoveDisallowed(str)))

\* the post-processors: a function of the 1-based column, the markup and
\* the sanitised text
Processors == {"none", "markup", "text", "fixed", "first"}

\* unknownDataProcessor(x + 1, html, data)
Process(p, index, html, text) ==
    CASE p = "markup" -> html
      [] p = "text"   -> text
      [] p = "fixed"  -> <<"p">>
      [] p = "first"  -> IF index = 1 THEN <<"p">> ELSE html
      [] OTHER        -> text

\* CellData comparing the value returned with the sanitised text
CellDataVsText(p, index, html, text) ==
    IF p # "none"
    THEN LET processed == Process(p, index, html, text)
         IN  IF processed # text THEN processed ELSE text
    ELSE text

\* the body of the loop of rowToArray: the value pushed for a cell
CellData(p, index, html, text) ==
    IF p # "none"
    THEN LET processed == Process(p, index, html, text)
         IN  IF processed # html THEN processed ELSE text
    ELSE text

\* the markup of a cell
Markups ==
    { <<>>,
      <<"a">>,
      <<"p">>,
      <<" ", "a", " ">>,
      <<"a", " ", " ", "b">>,
      <<"a", "\t", "b">>,
      <<"\t", "\n">>,
      <<"<b>", "a", "</b>">>,
      <<"a", " ", "U+25A3", " ", "b">> }

InitCells ==
    /\ pc = "row"
    /\ children \in UNION {[1..n -> Markups] : n \in 0..MaxCells}
    /\ unknownDataProcessor \in Processors
    /\ cols = <<>>
    /\ x = 0
    /\ rawHeaders = <<>>
    /\ headers = <<>>
    /\ selected = 0
    /\ remaining = 0
    /\ table = <<>>
    /\ out = <<>>
    /\ obj = {}
    /\ returned = FALSE
    /\ csvIdle
    /\ fetchIdle

\* one iteration of the loop of rowToArray
PushCell ==
    /\ pc = "row"
    /\ x < Len(children)
    /\ LET html == children[x + 1]
           text == sanitise(Text(html))
       IN  cols' = Append(cols, CellData(unknownDataProcessor, x + 1, html, text))
    /\ x' = x + 1
    /\ UNCHANGED <<pc, rawHeaders, headers, selected, table, remaining, out, obj, returned, data, output, csv, call, children, unknownDataProcessor, now, remote, cacheFile, fetched>>

\* rowToArray returns cols
ReturnCols ==
    /\ pc = "row"
    /\ x = Len(children)
    /\ pc' = "array"
    /\ UNCHANGED <<rawHeaders, headers, selected, table, remaining, out, cols, x, obj, returned, data, output, csv, call, children, unknownDataProcessor, now, remote, cacheFile, fetched>>

NextCells ==
    \/ PushCell
    \/ ReturnCols

SpecCells == InitCells /\ [][NextCells]_vars

-----------------------------------------------------------------------------
(* fetchAsText on one URL, whose cache file is ./cache/<file>.  Times are  *)
(* in milliseconds, the clock going by whole days.                         *)

\* const ttl: one week
ttl == 1000 * 60 * 60 * 24 * 7

\* the step of the clock
Day == 1000 * 60 * 60 * 24

\* the texts the URL serves
Pages == {1, 2}

\* isExpired: expires is compared with modified
isExpired(file) ==
    LET modified == file.mtime
        expires == modified + ttl
    IN  expires <= modified

\* writeFile(cache, html) at the time clock
Cached(html, clock) == [exists |-> TRUE, mtime |-> clock, text |-> html]

\* fetchAsText: the text returned and the cache file left, html being the
\* text the URL serves at the time clock
fetchAsText(cache, html, clock, doCache) ==
    LET unlinked == IF doCache /\ cache.exists /\ isExpired(cache)
                    THEN NoFile
                    ELSE cache
    IN  IF doCache /\ cache.exists /\ ~isExpired(cache)
        THEN [text |-> cache.text, file |-> cache]
        ELSE [text |-> html,
              file |-> IF doCache THEN Cached(html, clock) ELSE unlinked]

InitFetch ==
    /\ pc = "fetch"
    /\ now = 0
    /\ remote \in Pages
    /\ cacheFile = NoFile
    /\ fetched = NoFetch
    /\ children = <<>>
    /\ unknownDataProcessor = "none"
    /\ rawHeaders = <<>>
    /\ headers = <<>>
    /\ selected = 0
    /\ remaining = 0
    /\ table = <<>>
    /\ out = <<>>
    /\ cols = <<>>
    /\ x = 0
    /\ obj = {}
    /\ returned = FALSE
    /\ csvIdle

\* a day passes
Tick ==
    /\ pc = "fetch"
    /\ now < MaxTime * Day
    /\ now' = now + Day
    /\ UNCHANGED <<pc, rawHeaders, headers, selected, table, remaining, out, cols, x, obj, returned, data, output, csv, call, children, unknownDataProcessor, remote, cacheFile, fetched>>

\* the URL serves another text
Serve ==
    /\ pc = "fetch"
    /\ \E page \in Pages \ {remote} : remote' = page
    /\ UNCHANGED <<pc, rawHeaders, headers, selected, table, remaining, out, cols, x, obj, returned, data, output, csv, call, children, unknownDataProcessor, now, cacheFile, fetched>>

\* await fetchAsText(url, doCache)
FetchAsText ==
    /\ pc = "fetch"
    /\ \E doCache \in BOOLEAN :
        LET r == fetchAsText(cacheFile, remote, now, doCache)
        IN  /\ cacheFile' = r.file
            /\ fetched' = [called |-> TRUE, doCache |-> doCache, at |-> now,
                           page |-> remote, text |-> r.text, before |-> cacheFile]
    /\ UNCHANGED <<pc, rawHeaders, headers, selected, table, remaining, out, cols, x, obj, returned, data, output, csv, call, children, unknownDataProcessor, now, remote>>

NextFetch ==
    \/ Tick
    \/ Serve
    \/ FetchAsText

SpecFetch == InitFetch /\ [][NextFetch]_vars

-----------------------------------------------------------------------------
(* The CSV document: new CSV, then addLine, addObject and writeFile in any *)
(* order, up to MaxEntries rows added.                                     *)

hA == <<"a">>
hB == <<"b">>
hZ == <<"z">>

\* the header sources and options given to the constructor
Constructions ==
    { <<ArrayOf(<<hA, hB>>), <<>>>>,
      <<KeyedObject(<< <<hA, CNum(0)>>, <<hB, CNum(0)>> >>), <<>>>>,
      <<KeyedObject(<< <<hB, CNum(0)>>, <<hA, CNum(0)>> >>), <<>>>>,
      <<ArrayOf(<<hA, hB>>), << <<"Qualifier", <<>>>>, <<"delimiter", <<";">>>> >> >>,
      <<ArrayOf(<<hA, hB>>), << <<"qualifier", <<"'">>>>, <<"separator", <<";">>>> >> >> }

ValuesA == {CStr(<<"x">>), CNum(0)}
ValuesB == {CStr(<<"y">>), CStr(<<>>), CUndef, CArray(<<CStr(<<"1">>), CNull>>)}

\* the objects given to addObject: one value per header in either key
\* order, and objects with a key too few, a key too many, a key that is no
\* header, a keyed object or null as a value; null; a string
Objects ==
    {KeyedObject(<< <<hA, va>>, <<hB, vb>> >>) : va \in ValuesA, vb \in ValuesB}
    \cup {KeyedObject(<< <<hB, vb>>, <<hA, va>> >>) : va \in ValuesA, vb \in ValuesB}
    \cup {KeyedObject(<< <<hA, CStr(<<"x">>)>> >>),
          KeyedObject(<< <<hA, CStr(<<"x">>)>>, <<hB, CStr(<<"y">>)>>, <<hZ, CStr(<<"x">>)>> >>),
          KeyedObject(<< <<hA, CStr(<<"x">>)>>, <<hZ, CStr(<<"y">>)>> >>),
          KeyedObject(<< <<hZ, CStr(<<"x">>)>>, <<hB, CStr(<<"y">>)>> >>),
          KeyedObject(<< <<hA, CObject>>, <<hZ, CStr(<<"y">>)>> >>),
          KeyedObject(<< <<hZ, CObject>>, <<hA, CStr(<<"x">>)>> >>),
          KeyedObject(<< <<hA, CNull>>, <<hB, CStr(<<"y">>)>> >>),
          KeyedObject(<< <<hA, CStr(<<"x">>)>>, <<hB, CObject>> >>),
          NullValue,
          [kind |-> "string", pairs |-> <<>>, items |-> <<>>]}

\* the lines given to addLine: arrays of zero to three cells, a string
Lines ==
    {ArrayOf(<<>>),
     ArrayOf(<<CStr(<<"x">>)>>),
     ArrayOf(<<CStr(<<"x">>), CStr(<<"y">>)>>),
     ArrayOf(<<CNum(0), CArray(<<CStr(<<"1">>), CNull>>)>>),
     ArrayOf(<<CStr(<<"x">>), CStr(<<"y">>), CStr(<<"x">>)>>),
     [kind |-> "string", pairs |-> <<>>, items |-> <<>>]}

InitDoc ==
    /\ pc = "new"
    /\ rawHeaders = <<>>
    /\ headers = <<>>
    /\ selected = 0
    /\ table = <<>>
    /\ rowIdle
    /\ remaining = 0
    /\ out = <<>>
    /\ cols = <<>>
    /\ x = 0
    /\ obj = {}
    /\ returned = FALSE
    /\ csvIdle

pipelineIdle ==
    UNCHANGED <<rawHeaders, headers, selected, table, remaining, out, cols, x, obj, returned,
                data, output, children, unknownDataProcessor, now, remote, cacheFile, fetched>>

\* the document a construction leaves: none when the constructor raised
After(r) == IF r.status = "ok" THEN r.value ELSE csv

\* new CSV(headersIn, options)
Construct ==
    /\ pc = "new"
    /\ \E c \in Constructions :
        LET r == CsvNew(c[1], c[2])
        IN  /\ csv' = After(r)
            /\ pc' = IF r.status = "ok" THEN "doc" ELSE "failed"
            /\ call' = [NoCall EXCEPT !.op = "new", !.object = c[1],
                                      !.result = [r EXCEPT !.value = <<>>]]
    /\ pipelineIdle

\* csv.addLine(line)
AddLine ==
    /\ pc = "doc"
    /\ Len(csv.entries) < MaxEntries
    /\ \E line \in Lines :
        LET r == addLine(csv, line)
        IN  /\ csv' = r.value
            /\ call' = [NoCall EXCEPT !.op = "addLine", !.line = line, !.before = csv,
                                      !.result = [r EXCEPT !.value = <<>>]]
    /\ UNCHANGED pc
    /\ pipelineIdle

\* csv.addObject(obj)
AddObject ==
    /\ pc = "doc"
    /\ Len(csv.entries) < MaxEntries
    /\ \E o \in Objects :
        LET r == addObject(csv, o)
        IN  /\ csv' = r.value
            /\ call' = [NoCall EXCEPT !.op = "addObject", !.object = o, !.before = csv,
                                      !.result = [r EXCEPT !.value = <<>>]]
    /\ UNCHANGED pc
    /\ pipelineIdle

\* csv.writeFile(filename); the result kept is the text written, and prev
\* is the result of the call before when that call was a writeFile too
WriteFile ==
    /\ pc = "doc"
    /\ LET r == writeFile(csv)
       IN  /\ csv' = IF r.status = "ok" THEN r.value.this ELSE csv
           /\ call' = [NoCall EXCEPT !.op = "writeFile", !.before = csv,
                                     !.result = IF r.status = "ok"
                                                THEN Returned(r.value.text)
                                                ELSE r,
                                     !.prev = IF call.op = "writeFile"
                                              THEN call.result
                                              ELSE Thrown("", <<>>)]
    /\ UNCHANGED pc
    /\ pipelineIdle

NextDoc ==
    \/ Construct
    \/ AddLine
    \/ AddObject
    \/ WriteFile

SpecDoc == InitDoc /\ [][NextDoc]_vars

-----------------------------------------------------------------------------
(* Properties. *)

\* the template t has the syntax name OPEN pattern CLOSE: a non-empty name
\* before the opening token and a non-empty pattern before the closing one
HasSyntax(t, open, close) ==
    \E i \in 2..Len(t) : \E j \in (i + Len(open) + 1)..Len(t) :
        IsAt(t, open, i) /\ IsAt(t, close, j)

\* the type the fixed priority Transform > Multi > Split > Norm gives t
PriorityType(t) ==
    IF HasSyntax(t, transformOpen, transformClose) THEN "transform"
    ELSE IF HasSyntax(t, multiOpen, multiClose) THEN "multi"
    ELSE IF HasSyntax(t, splitOpen, splitClose) THEN "split"
    ELSE "norm"

\* the headers are compiled
Compiled == pc # "start" /\ pc # "entry"

\* C1: every non-null template compiles to exactly one of the four types,
\* the one the priority Transform > Multi > Split > Norm selects among the
\* syntaxes the template has, and a norm header is named by the whole
\* template.
C1_TypeByPriority ==
    Compiled =>
        \A i \in 1..Len(rawHeaders) :
            ~rawHeaders[i].isNull =>
                /\ headers[i].type \in {"transform", "multi", "split", "norm"}
                /\ headers[i].type = PriorityType(rawHeaders[i].str)
                /\ headers[i].type = "norm" => headers[i].header = rawHeaders[i].str

\* C1 witness: a template with the Transform and the Multi syntax compiled
\* to a transform header
C1_Witness ==
    /\ Compiled
    /\ \E i \in 1..Len(rawHeaders) :
        /\ ~rawHeaders[i].isNull
        /\ HasSyntax(rawHeaders[i].str, transformOpen, transformClose)
        /\ HasSyntax(rawHeaders[i].str, multiOpen, multiClose)
        /\ headers[i].type = "transform"

\* the text between the opening and the closing token of the syntax in t
PatternText(t, open, close) ==
    IF ~HasSyntax(t, open, close) THEN <<>>
    ELSE LET i == Min({k \in 2..Len(t) :
                         /\ IsAt(t, open, k)
                         /\ \E j \in (k + Len(open) + 1)..Len(t) : IsAt(t, close, j)})
             j == Min({k \in (i + Len(open) + 1)..Len(t) : IsAt(t, close, k)})
         IN  SubSeq(t, i + Len(open), j - 1)

\* putDataInObject is running, or has ended, on the row cols
InRow == pc \in {"cols", "exited", "threw"}

\* what the run of putDataInObject so far amounts to: the outcome and the
\* record after the x columns done, or at the column that ended the run
Outcome ==
    [status |-> CASE pc = "exited" -> "exit"
                  [] pc = "threw"  -> "throw"
                  [] OTHER         -> "ok",
     obj |-> obj]

\* putDataInObject with the header list hs on the part of the row the run
\* has gone through
Rerun(hs) ==
    PutFrom({}, hs, SubSeq(cols, 1, IF pc = "cols" THEN x ELSE x + 1), 1)

\* the header list with the map pattern removed from every non-split header
StripInert(hs) ==
    [i \in 1..Len(hs) |->
        IF hs[i].type = "split" THEN hs[i] ELSE [hs[i] EXCEPT !.map = <<>>]]

Kept(hs) == {i \in 1..Len(hs) : ~hs[i].isNull}

\* the list s without the positions at which hs holds null
RECURSIVE Compact(_, _)
Compact(s, hs) ==
    IF s = <<>> \/ hs = <<>> THEN s
    ELSE IF Head(hs).isNull THEN Compact(Tail(s), Tail(hs))
    ELSE <<Head(s)>> \o Compact(Tail(s), Tail(hs))

\* the part of the row the run of putDataInObject has gone through
Seen == SubSeq(cols, 1, IF pc = "cols" THEN x ELSE x + 1)

\* C3: the compiled list has the length of the template list and holds
\* null at exactly the positions of the null templates; a column under a
\* null header neither raises nor adds a key: the record is the one
\* assembled from the row and the header list without the null columns.
C3_NullAligned ==
    /\ Compiled =>
        /\ Len(headers) = Len(rawHeaders)
        /\ Kept(headers) = Kept(rawHeaders)
    /\ InRow =>
        /\ PutFrom({}, Compact(headers, headers),
                   Compact(Seen, SubSeq(headers, 1, Len(Seen))), 1) = Outcome
        /\ pc # "cols" => ColumnType # "null"

\* C3 witness: a row of two cells assembled under a null header and a
\* header that wrote a key
C3_Witness ==
    /\ pc = "cols"
    /\ x = 2
    /\ Len(cols) = 2
    /\ headers[1].isNull
    /\ ~headers[2].isNull
    /\ obj # {}

\* the loop of putDataInObject has just gone through a column of this type
Done(type) ==
    /\ pc = "cols"
    /\ x >= 1
    /\ x <= Len(headers)
    /\ headers[x].type = type

\* the run of putDataInObject ended at a column of this type
EndedAt(type) ==
    /\ pc \in {"exited", "threw"}
    /\ ColumnType = type

\* C4: a transform column that was assembled had a matching cell and left
\* capture group 1 under the header's name; a cell that does not match ends
\* the process: the conversion stops in that row with the records of the
\* earlier rows only, nothing is returned and nothing runs afterwards.
C4_TransformFatal ==
    /\ Done("transform") =>
        LET m == RegExpMatch(cols[x], headers[x].transform)
        IN  /\ m.found
            /\ Get(obj, headers[x].header) = VStr(m.groups[1])
    /\ EndedAt("transform") =>
        /\ pc = "exited"
        /\ ~RegExpMatch(cols[x + 1], headers[x + 1].transform).found
    /\ pc = "exited" =>
        /\ ColumnType = "transform"
        /\ Len(out) = selected - remaining - 1
        /\ ~returned
        /\ ~ENABLED Next
    /\ returned => pc = "returned" /\ Len(out) = selected

\* C4 witness: the second of three rows holds a cell that does not match
\* the transform pattern
C4_Witness ==
    /\ pc = "exited"
    /\ ColumnType = "transform"
    /\ Len(out) = 1
    /\ remaining = 1
    /\ selected = 3

Max(S) == CHOOSE m \in S : \A n \in S : m >= n

\* C5: a multi column with N names and N capture groups whose cell matches
\* is assembled without error and leaves capture group i under the i-th
\* name, the assignments being made in name order (a name listed twice
\* ends with the group of its last position).
C5_MultiGroupsInOrder ==
    /\ Done("multi") =>
        LET names == headers[x].headers
            m == RegExpMatch(cols[x], headers[x].dataRegex)
        IN  /\ m.found
            /\ NumGroups(headers[x].dataRegex) = Len(names) =>
                \A i \in 1..Len(names) :
                    LET last == Max({j \in 1..Len(names) : names[j] = names[i]})
                    IN  Get(obj, names[i]) = VStr(m.groups[last])
    /\ EndedAt("multi") =>
        ~RegExpMatch(cols[x + 1], headers[x + 1].dataRegex).found

\* C5 witness: the cell k=v assembled under the names a and b
C5_Witness ==
    /\ Done("multi")
    /\ headers[x].headers = << <<"a">>, <<"b">> >>
    /\ cols[x] = <<"k", "=", "v">>
    /\ Get(obj, <<"a">>) = VStr(<<"k">>)
    /\ Get(obj, <<"b">>) = VStr(<<"v">>)

\* C6: a multi column whose cell does not match raises no error, leaves
\* every name of the header undefined and lets the assembly go on.
C6_MultiNonMatchSoft ==
    /\ ~EndedAt("multi")
    /\ Done("multi") /\ ~RegExpMatch(cols[x], headers[x].dataRegex).found =>
        \A i \in 1..Len(headers[x].headers) :
            Get(obj, headers[x].headers[i]) = VUndef

\* the pattern is a literal text
IsLiteral(pat) == \A i \in 1..Len(pat) : pat[i] \notin {"(", ")", "."}

RECURSIVE Join(_, _)
Join(l, sep) ==
    IF l = <<>> THEN <<>>
    ELSE IF Len(l) = 1 THEN l[1]
    ELSE l[1] \o sep \o Join(Tail(l), sep)

\* the text of t before the opening token of the syntax
NameText(t, open, close) ==
    LET i == Min({k \in 2..Len(t) :
                    /\ IsAt(t, open, k)
                    /\ \E j \in (k + Len(open) + 1)..Len(t) : IsAt(t, close, j)})
    IN  SubSeq(t, 1, i - 1)

\* C7: a split column without a map pattern never raises and leaves, under
\* the text before {{, the list cell.split(delimiter), the delimiter being
\* the text between {{ and }}: the fragments joined by a literal delimiter
\* give back the cell, and no fragment holds the delimiter.
C7_SplitList ==
    /\ Done("split") /\ headers[x].map = <<>> =>
        LET t == rawHeaders[x].str
            delim == PatternText(t, splitOpen, splitClose)
            v == Get(obj, NameText(t, splitOpen, splitClose))
        IN  /\ v = VList(JsSplit(cols[x], delim))
            /\ IsLiteral(delim) =>
                /\ Join(v.list, delim) = cols[x]
                /\ \A i \in 1..Len(v.list) :
                       \A k \in 1..Len(v.list[i]) : ~IsAt(v.list[i], delim, k)
    /\ EndedAt("split") => headers[x + 1].map # <<>>

\* C7 witness: a cell split into two fragments
C7_Witness ==
    /\ Done("split")
    /\ headers[x].map = <<>>
    /\ Get(obj, headers[x].header).list = << <<"k", "=", "v">>, <<"a", "b">> >>

\* C8: a split column with a map pattern leaves a mapping when every
\* fragment matches the pattern, each fragment's group 1 being a key that
\* holds the group 2 of the last fragment with that key; when a fragment
\* does not match, the field is the list of fragments with no pair kept.
C8_SplitMapAllOrNothing ==
    Done("split") /\ headers[x].map # <<>> =>
        LET parts == JsSplit(cols[x], headers[x].delim)
            m(i) == RegExpMatch(parts[i], headers[x].map)
            key(i) == PropertyKey(Group(m(i), 1))
            v == Get(obj, headers[x].header)
        IN  IF \A i \in 1..Len(parts) : m(i).found
            THEN /\ v.kind = "object"
                 /\ \A i \in 1..Len(parts) :
                        LET last == Max({j \in 1..Len(parts) : key(j) = key(i)})
                        IN  Get(v.map, key(i)) = Group(m(last), 2)
            ELSE v = VList(parts)

\* the entry has been expanded or the expansion has raised
Expanded == pc = "expanded" \/ pc = "threw"

AllScalar == \A c \in 1..Len(data) : ~IsArray(data[c])

\* C9: an entry whose cells are all scalar expands without error to exactly
\* one row, and that row is the cells of the entry in header order.
C9_ScalarEntryOneRow ==
    Expanded /\ AllScalar =>
        /\ pc = "expanded"
        /\ Len(output) = 1
        /\ \A c \in 1..Len(csvHeaders) : output[1][c] = data[c]

\* C9 witness: the entry x, undefined has expanded to the row x, undefined
C9_Witness ==
    /\ pc = "expanded"
    /\ data = <<CStr(<<"x">>), CUndef>>
    /\ output = <<data>>

\* max(1, the largest length of a list cell of the entry)
Height ==
    Max({1} \cup {Len(data[c].items) : c \in {d \in 1..Len(data) : IsArray(data[d])}})

ExampleEntry ==
    <<CStr(<<"x">>), CArray(<<CStr(<<"1">>), CStr(<<"2">>), CStr(<<"3">>)>>)>>

ExampleRows ==
    << <<CStr(<<"x">>), CStr(<<"1">>)>>,
       <<CStr(<<>>), CStr(<<"2">>)>>,
       <<CStr(<<>>), CStr(<<"3">>)>> >>

\* C10: the expansion returns, without error, max(1, longest list of the
\* entry) rows of one slot per header each; the entry x, [1, 2, 3] gives
\* the rows x 1, "" 2 and "" 3.
C10_HeightAndWidth ==
    Expanded =>
        /\ pc = "expanded"
        /\ Len(output) = Height
        /\ \A r \in 1..Len(output) : Len(output[r]) = Len(csvHeaders)
        /\ data = ExampleEntry => output = ExampleRows

\* C10 witness: the example entry expanded to its three rows
C10_Witness ==
    /\ pc = "expanded"
    /\ data = ExampleEntry
    /\ output = ExampleRows

\* the rows of column c hold every element of items once and "" elsewhere
HoldsOnce(c, items) ==
    \E f \in [1..Len(items) -> 1..Len(output)] :
        /\ \A i, j \in 1..Len(items) : f[i] = f[j] => i = j
        /\ \A i \in 1..Len(items) : output[f[i]][c] = items[i]
        /\ \A r \in 1..Len(output) :
               (\A i \in 1..Len(items) : f[i] # r) => output[r][c] = CStr(<<>>)

\* C11: in the rows returned, every element of a list cell stands in exactly
\* one row of the cell's column, the other rows of the column holding "",
\* and a scalar cell stands in the first row of its column only.
C11_EveryElementOnce ==
    pc = "expanded" =>
        \A c \in 1..Len(data) :
            IF IsArray(data[c])
            THEN HoldsOnce(c, data[c].items)
            ELSE HoldsOnce(c, <<data[c]>>) /\ output[1][c] = data[c]

\* the last call was a writeFile that wrote its text
Written == pc = "doc" /\ call.op = "writeFile" /\ call.result.status = "ok"

RECURSIVE Blocks(_)
Blocks(entries) ==
    IF entries = <<>> THEN <<>>
    ELSE LET block == getOutputRows(entries[1].headers, entries[1].data).rows
         IN  [r \in 1..Len(block) |-> [c \in 1..Len(block[r]) |-> block[r][c]]]
                 \o Blocks(Tail(entries))

\* the header row followed by the rows of every entry of the document
DocRows == <<[c \in 1..Len(csv.headers) |-> CStr(csv.headers[c])]>> \o Blocks(csv.entries)

\* the characters a cell contributes to its field
Shown(c) ==
    CASE c.kind = "string" -> c.str
      [] c.kind = "number" -> NumberToString(c.num)
      [] OTHER             -> <<>>

\* the fields of a row between qualifiers, joined by the delimiter
RowShown(row) ==
    Join([c \in 1..Len(row) |-> csv.qualifier \o Shown(row[c]) \o csv.qualifier],
         csv.delimeter)

ExampleText ==
    <<"\"", "a", "\"", ",", "\"", "b", "\"", "\n", "\"", "x", "\"", ",", "\"", "y", "\"">>

\* C12: the text written is the header row and the data rows joined by a
\* newline with none after the last row, the fields of a row joined by the
\* delimiter, each field between two qualifiers (none when the qualifier is
\* ""); headers a, b and the entry x, y give "a","b"\n"x","y".
C12_Serialized ==
    Written =>
            /\ call.result.value = Join([r \in 1..Len(DocRows) |-> RowShown(DocRows[r])],
                                        <<"\n">>)
            /\ (/\ csv.headers = <<hA, hB>>
                /\ csv.qualifier = <<"\"">>
                /\ csv.delimeter = <<",">>
                /\ Len(csv.entries) = 1
                /\ csv.entries[1].data = <<CStr(<<"x">>), CStr(<<"y">>)>>)
               => call.result.value = ExampleText

\* C12 witness: the example document written
C12_Witness ==
    /\ Written
    /\ csv.headers = <<hA, hB>>
    /\ Len(csv.entries) = 1
    /\ csv.entries[1].data = <<CStr(<<"x">>), CStr(<<"y">>)>>
    /\ call.result.value = ExampleText

\* the fields of the text written: its lines cut at the delimiter
TextFields ==
    LET lines == SplitStr(call.result.value, <<"\n">>)
    IN  [r \in 1..Len(lines) |-> SplitStr(lines[r], csv.delimeter)]

\* C13: in the text written the field of a null, undefined or "" value is
\* empty between its qualifiers, and the field of the number 0 is the
\* character 0.
C13_EmptyAndZero ==
    Written =>
        /\ Len(TextFields) = Len(DocRows)
        /\ \A r \in 1..Len(DocRows) :
            /\ Len(TextFields[r]) = Len(DocRows[r])
            /\ \A c \in 1..Len(DocRows[r]) :
                LET d == DocRows[r][c]
                IN  /\ d \in {CNull, CUndef, CStr(<<>>)} =>
                           TextFields[r][c] = csv.qualifier \o csv.qualifier
                    /\ d = CNum(0) =>
                           TextFields[r][c] = csv.qualifier \o <<"0">> \o csv.qualifier

\* C13 witness: a row 0, "1" and a row "", null written as "0","1" and "",""
C13_Witness ==
    /\ Written
    /\ Len(csv.entries) = 1
    /\ csv.entries[1].data = <<CNum(0), CArray(<<CStr(<<"1">>), CNull>>)>>
    /\ TextFields = << << <<"\"", "a", "\"">>, <<"\"", "b", "\"">> >>,
                       << <<"\"", "0", "\"">>, <<"\"", "1", "\"">> >>,
                       << <<"\"", "\"">>, <<"\"", "\"">> >> >>

\* the cells of an added row, whichever operation added it
CellsOf(entry) == IF entry.kind = "CSVEntry" THEN entry.data ELSE entry.items

RECURSIVE AddedBlocks(_)
AddedBlocks(entries) ==
    IF entries = <<>> THEN <<>>
    ELSE LET block == getOutputRows(csv.headers, CellsOf(entries[1])).rows
         IN  [r \in 1..Len(block) |-> [c \in 1..Len(block[r]) |-> block[r][c]]]
                 \o AddedBlocks(Tail(entries))

\* C14: after any successful addLine and addObject calls writeFile succeeds
\* and writes the header row followed by the block of rows of every added
\* row, in the order of the additions, whichever operation added the row.
C14_WriteAfterAdds ==
    pc = "doc" /\ call.op = "writeFile" =>
        /\ call.result.status = "ok"
        /\ call.result.value =
             Join([r \in 1..(1 + Len(AddedBlocks(csv.entries))) |->
                     RowShown((<<[c \in 1..Len(csv.headers) |-> CStr(csv.headers[c])]>>
                               \o AddedBlocks(csv.entries))[r])],
                  <<"\n">>)

\* the last call was op, made on a constructed document
Called(op) == pc = "doc" /\ call.op = op

\* C15: addLine takes an array exactly when it has one element per header:
\* it then becomes the last row of the document; a shorter or longer array
\* is refused with the length error, which tells the length found and the
\* header count, and the document is left as it was.
C15_AddLineExactLength ==
    Called("addLine") /\ call.line.kind = "array" =>
        IF Len(call.line.items) = Len(call.before.headers)
        THEN /\ call.result.status = "ok"
             /\ csv.entries = Append(call.before.entries, call.line)
             /\ csv.headers = call.before.headers
        ELSE /\ call.result.status = "throw"
             /\ call.result.error = "Input length ; expected "
             /\ call.result.detail = <<Len(call.line.items), Len(call.before.headers)>>
             /\ csv = call.before

\* C15 witness: an array of one cell refused by a document of two headers
\* that holds a row
C15_Witness ==
    /\ Called("addLine")
    /\ call.line = ArrayOf(<<CStr(<<"x">>)>>)
    /\ call.result.status = "throw"
    /\ Len(csv.entries) = 1
    /\ csv = call.before

\* the last call was addObject with a keyed object
AddedObject == Called("addObject") /\ call.object.kind = "object"

IsHeader(key) == \E c \in 1..Len(call.before.headers) : call.before.headers[c] = key

\* C16: addObject with an object whose key count differs from the header
\* count raises the key count error, which tells the count found and the
\* header count expected.
C16_KeyCountError ==
    AddedObject /\ Len(call.object.pairs) # Len(call.before.headers) =>
        /\ call.result.status = "throw"
        /\ call.result.error = "Object has  keys but expected "
        /\ call.result.detail = <<Len(call.object.pairs), Len(call.before.headers)>>

\* the positions of the keys of the object that are no header
Unknown == {i \in 1..Len(call.object.pairs) : ~IsHeader(call.object.pairs[i][1])}

\* C17 as claimed: addObject with one key per header and a key that is no
\* header raises the unknown header error naming such a key.
C17_UnknownKeyError ==
    AddedObject /\ Len(call.object.pairs) = Len(call.before.headers) /\ Unknown # {} =>
        /\ call.result.status = "throw"
        /\ call.result.error = "Could not find header "
        /\ \E i \in Unknown : call.result.detail = call.object.pairs[i][1]

\* C17: addObject with one key per header and a key that is no header adds
\* nothing and raises the unknown header error naming the first such key in
\* key order, unless a key before it holds a keyed object or null: then the
\* error is "Cannot add object to cell".
C17_FirstUnknownKeyError ==
    AddedObject /\ Len(call.object.pairs) = Len(call.before.headers) /\ Unknown # {} =>
        LET first == Min(Unknown)
        IN  /\ call.result.status = "throw"
            /\ csv = call.before
            /\ IF \E j \in 1..(first - 1) : IsKeyed(call.object.pairs[j][2])
               THEN call.result.error = "Cannot add object to cell"
               ELSE /\ call.result.error = "Could not find header "
                    /\ call.result.detail = call.object.pairs[first][1]

\* C17 witness: the keys z, a with a keyed object under z refused for z
C17_Witness ==
    /\ AddedObject
    /\ call.object = KeyedObject(<< <<hZ, CObject>>, <<hA, CStr(<<"x">>)>> >>)
    /\ call.result.error = "Could not find header "
    /\ call.result.detail = hZ

\* C18: a document made from a keyed object has that object's keys, in
\* enumeration order, as headers; made from an array it has the elements of
\* the array in their order; a row added with addObject holds under every
\* header the value the object has for it, whatever the object's key order.
C18_HeaderOrder ==
    /\ Called("new") =>
        IF call.object.kind = "object"
        THEN /\ Len(csv.headers) = Len(call.object.pairs)
             /\ \A i \in 1..Len(csv.headers) : csv.headers[i] = call.object.pairs[i][1]
        ELSE csv.headers = call.object.items
    /\ AddedObject /\ call.result.status = "ok" =>
        LET row == csv.entries[Len(csv.entries)]
        IN  /\ Len(row.data) = Len(csv.headers)
            /\ \A i \in 1..Len(call.object.pairs) :
                \A c \in 1..Len(csv.headers) :
                    csv.headers[c] = call.object.pairs[i][1] =>
                        row.data[c] = call.object.pairs[i][2]

\* C18 witness: the object b: y, a: x added under the headers a, b as x, y
C18_Witness ==
    /\ AddedObject
    /\ call.result.status = "ok"
    /\ csv.headers = <<hA, hB>>
    /\ call.object = KeyedObject(<< <<hB, CStr(<<"y">>)>>, <<hA, CStr(<<"x">>)>> >>)
    /\ csv.entries[Len(csv.entries)].data = <<CStr(<<"x">>), CStr(<<"y">>)>>

\* C19: writeFile leaves the document as it found it, headers, entries,
\* cells and options, whether it writes or raises; a writeFile that follows
\* a writeFile that wrote writes the same text.
C19_WriteFileFrame ==
    Called("writeFile") =>
        /\ csv = call.before
        /\ call.prev.status = "ok" =>
            /\ call.result.status = "ok"
            /\ call.result.value = call.prev.value

\* C19 witness: a document of two rows written twice in a row
C19_Witness ==
    /\ Called("writeFile")
    /\ Len(csv.entries) = 2
    /\ call.prev.status = "ok"
    /\ call.result = call.prev
    /\ csv = call.before

C28_RaiseLeavesDocument ==
    ((Called("addLine") \/ Called("addObject")) /\ call.result.status = "throw") =>
        /\ Len(csv.entries) = Len(call.before.entries)
        /\ csv.entries = call.before.entries
        /\ csv.headers = call.before.headers
        /\ csv.qualifier = call.before.qualifier
        /\ csv.delimeter = call.before.delimeter
        /\ writeFile(csv).status = writeFile(call.before).status
        /\ writeFile(csv).status = "ok" =>
               writeFile(csv).value.text = writeFile(call.before).value.text

\* an addObject raised on its second key, on a document that holds an entry
C28_RaisedWitness ==
    /\ Called("addObject")
    /\ call.result.status = "throw"
    /\ call.result.error = "Could not find header "
    /\ Len(call.object.pairs) = 2
    /\ ArrayIndexOf(csv.headers, ObjectKeys(call.object)[1]) # -1
    /\ Len(csv.entries) = 1

\* the row element i of a list lands in: the first row after the rows the
\* truthy elements before it hold
Land(items, i) == 1 + Cardinality({j \in 1..(i - 1) : CTruthy(items[j])})

\* the elements of the list that land in row r
Landed(items, r) == {j \in 1..Len(items) : Land(items, j) = r}

\* the list columns of the entry
ListColumns == {c \in 1..Len(data) : IsArray(data[c])}

\* C24: slot emptiness is truthiness: a falsy element (0 or "") already
\* placed counts as empty and the next element placed in the column takes
\* its row; a falsy element followed by another element is not in the
\* output, the slot holding the last element that landed there.
C24_FalsyOverwritten ==
    pc = "expanded" =>
        \A c \in ListColumns :
            LET items == data[c].items
            IN  \A i \in 1..(Len(items) - 1) :
                    ~CTruthy(items[i]) =>
                        LET r == Land(items, i)
                            last == Max(Landed(items, r))
                        IN  /\ Land(items, i + 1) = r
                            /\ last > i
                            /\ output[r][c] = items[last]
                            /\ (/\ items[i] # CStr(<<>>)
                                /\ \A j \in 1..Len(items) : j # i => items[j] # items[i])
                               => \A q \in 1..Len(output) : output[q][c] # items[i]

\* C24 witness: the list 0, 2 has expanded to 2 and a blank
C24_Witness ==
    /\ pc = "expanded"
    /\ data = <<CStr(<<"x">>), CArray(<<CNum(0), CStr(<<"2">>)>>)>>
    /\ output = << <<CStr(<<"x">>), CStr(<<"2">>)>>, <<CStr(<<>>), CStr(<<>>)>> >>

\* C25: every list column is filled on its own: each element, in list
\* order, goes to the lowest row of the column whose slot is empty or
\* falsy, so that a row holds the last element that landed in it and ""
\* when none did; a list of k truthy elements stands in rows 0..k-1 in list
\* order whatever the other columns hold; the search never runs past the
\* last row.
C25_GravityFill ==
    /\ pc # "threw"
    /\ pc = "expanded" =>
        \A c \in ListColumns :
            LET items == data[c].items
            IN  /\ \A r \in 1..Len(output) :
                       output[r][c] = IF Landed(items, r) = {} THEN CStr(<<>>)
                                      ELSE items[Max(Landed(items, r))]
                /\ (\A i \in 1..Len(items) : CTruthy(items[i])) =>
                       /\ Len(output) >= Len(items)
                       /\ \A i \in 1..Len(items) : output[i][c] = items[i]

\* C25 witness: two list columns of different lengths, each filled from
\* the first row down
C25_Witness ==
    /\ pc = "expanded"
    /\ data = <<CArray(<<CStr(<<"1">>)>>),
                CArray(<<CStr(<<"1">>), CStr(<<"2">>), CStr(<<"3">>)>>)>>
    /\ output = << <<CStr(<<"1">>), CStr(<<"1">>)>>,
                   <<CStr(<<>>), CStr(<<"2">>)>>,
                   <<CStr(<<>>), CStr(<<"3">>)>> >>
\* C21: the templates are compiled once, before any row is taken, and the
\* list returned holds exactly one record per selected row, in source row
\* order: record i is the assembly of selected row i on an empty record,
\* no row being skipped or taken twice.
C21_OneRecordPerRow ==
    /\ Compiled => headers = processHeaders(rawHeaders)
    /\ pc = "start" => table = <<>> /\ out = <<>>
    /\ Len(table) = selected - remaining
    /\ pc = "cols" => Len(out) = Len(table) - 1 /\ cols = table[Len(table)]
    /\ (pc = "rows" \/ pc = "returned") => Len(out) = Len(table)
    /\ \A i \in 1..Len(out) :
           /\ putDataInObject(table[i], headers, {}).status = "ok"
           /\ out[i] = putDataInObject(table[i], headers, {}).obj
    /\ returned => Len(out) = selected /\ remaining = 0

\* C21 witness: a table of three rows returned as three records, the first
\* two rows and their records being different
C21_Witness ==
    /\ returned
    /\ selected = 3
    /\ Len(out) = 3
    /\ table[1] # table[2]
    /\ out[1] # out[2]
\* the number of positions the row and the header list both have
Both == Min({Len(cols), Len(headers)})

\* putDataInObject on the positions the row and the header list both have
Short == putDataInObject(SubSeq(cols, 1, Both), SubSeq(headers, 1, Both), {})

\* C23: a row and a header list of different lengths are assembled without
\* a raise of their own: the record is the one assembled from the
\* positions present in both; a cell beyond the header list adds no key
\* and raises nothing, and a header beyond the row adds no key.
C23_RaggedTolerated ==
    /\ (pc = "threw" \/ pc = "exited") =>
           /\ x < Both
           /\ Short.status = (IF pc = "threw" THEN "throw" ELSE "exit")
    /\ (pc = "cols" /\ x >= Both) =>
           /\ Short.status = "ok"
           /\ obj = Short.obj
    /\ (pc = "cols" /\ x > Len(headers)) => cols # <<>> /\ ColumnType = "null"
    /\ ((pc = "rows" \/ pc = "returned") /\ out # <<>>) =>
           /\ Short.status = "ok"
           /\ out = <<Short.obj>>
           /\ Len(cols) = 0 => out = <<{}>>

\* C23 witness: a row of three cells returned under two headers, as a
\* record of two keys
C23_Witness ==
    /\ returned
    /\ Len(headers) = 2
    /\ Len(cols) = 3
    /\ cols[3] # <<>>
    /\ Cardinality(Keys(out[1])) = 2
\* the outcome tableToArrayOfObj has for a row under the templates given
TableOutcome(row) == putDataInObject(row, processHeaders(rawHeaders), {})

\* C27: rowToObj and rowsToArrayOfObj, called with the array of header
\* template strings, give for each row the record tableToArrayOfObj gives
\* for it: they raise only where it raises, and every record they push is
\* its record for that row.
C27_DirectSameAsTable ==
    /\ pc = "threw" => TableOutcome(cols).status = "throw"
    /\ \A i \in 1..Len(out) :
           /\ TableOutcome(table[i]).status = "ok"
           /\ out[i] = TableOutcome(table[i]).obj
\* the text has no disallowed character, no whitespace at its ends and no
\* two whitespace characters in a row
Clean(text) ==
    /\ \A i \in 1..Len(text) : \A j \in 1..Len(disallowed) : text[i] # disallowed[j]
    /\ text # <<>> => ~IsSpace(text[1]) /\ ~IsSpace(text[Len(text)])
    /\ \A i \in 1..(Len(text) - 1) : ~(IsSpace(text[i]) /\ IsSpace(text[i + 1]))

\* C22: rowToArray gives one value per cell, in source order: the
\* sanitised text of the cell, unless a post-processor is given and
\* returns a value different from the raw markup of the cell, which then
\* replaces it; when it returns exactly the raw markup the sanitised text
\* is kept.
C22_CellValue ==
    /\ Len(cols) = x
    /\ pc = "array" => Len(cols) = Len(children)
    /\ \A i \in 1..Len(cols) :
           LET html == children[i]
               text == sanitise(Text(html))
               processed == Process(unknownDataProcessor, i, html, text)
           IN  /\ Clean(text)
               /\ Len(text) <= Len(html)
               /\ (unknownDataProcessor # "none" /\ processed # html) =>
                      cols[i] = processed
               /\ (unknownDataProcessor = "none" \/ processed = html) =>
                      cols[i] = text

\* C22 witness: a processor that answers the first cell and returns the
\* markup of the second: the first value is its answer, the second the
\* sanitised text
C22_Witness ==
    /\ pc = "array"
    /\ unknownDataProcessor = "first"
    /\ children = << <<" ", "a", " ">>, <<" ", "a", " ">> >>
    /\ cols = << <<"p">>, <<"a">> >>
\* the cache file the last call found was written more than ttl before it
Stale == fetched.before.exists /\ fetched.before.mtime + ttl < fetched.at

\* C26: with caching, fetchAsText returns the cached copy only while the
\* cache file has not expired: a file modified more than the ttl of one
\* week before the call is dropped and the URL is fetched and cached again;
\* with doCache false the cache is neither read nor written.
C26_CacheExpires ==
    fetched.called =>
        /\ ~fetched.doCache =>
               /\ fetched.text = fetched.page
               /\ cacheFile = fetched.before
        /\ (fetched.doCache /\ fetched.before.exists /\ ~Stale) =>
               /\ fetched.text = fetched.before.text
               /\ cacheFile = fetched.before
        /\ (fetched.doCache /\ (~fetched.before.exists \/ Stale)) =>
               /\ fetched.text = fetched.page
               /\ cacheFile = Cached(fetched.page, fetched.at)
====
